---- MODULE Spec2Model ----
(***************************************************************************)
(* Overnight / intraday return pipeline of plot_suspicious_returns.py:     *)
(*   get_prices_open_close_adj_dates  (row cleaning, date window)          *)
(*   compute_returns_overnight_intraday (decomposition, 14-day gap rule)   *)
(*   cumulate_returns                 (compounding)                        *)
(*                                                                         *)
(* Python floats are modelled as exact rationals <<n, d>> in lowest terms  *)
(* with d > 0, so equality of two rationals is equality of the pairs.      *)
(* Python lists are 0-based; the sequences here are 1-based, so Python's   *)
(* x[i] is x[i + 1] below.  Python indices (d0, d1) keep their 0-based     *)
(* value.  A raised exception is a result record whose status names it.    *)
(***************************************************************************)
EXTENDS Integers, Sequences, FiniteSets, TLC

VARIABLES pc, original_data, start_date, end_date, bad_data_dates,
          prices, rets, plot, curves, returns, cumulated, samples

vars == <<pc, original_data, start_date, end_date, bad_data_dates,
          prices, rets, plot, curves, returns, cumulated, samples>>

(***************************************************************************)
(* Exact arithmetic on the values the floats stand for.                    *)
(***************************************************************************)
Abs(x) == IF x < 0 THEN -x ELSE x

RECURSIVE GCD(_, _)
GCD(a, b) == IF b = 0 THEN a ELSE GCD(b, a % b)

\* the rational n/d (d # 0) in lowest terms with a positive denominator
Rat(n, d) ==
    LET s == IF d < 0 THEN -1 ELSE 1
        g == GCD(Abs(n), Abs(d))
    IN  <<(s * n) \div g, (s * d) \div g>>

R(n) == <<n, 1>>
Zero == R(0)
One == R(1)

RAdd(a, b) == Rat(a[1] * b[2] + b[1] * a[2], a[2] * b[2])
RSub(a, b) == Rat(a[1] * b[2] - b[1] * a[2], a[2] * b[2])
RMul(a, b) == Rat(a[1] * b[1], a[2] * b[2])
\* a / b for b # 0; Python raises ZeroDivisionError for b = 0, which the
\* callers test before dividing
RDiv(a, b) == Rat(a[1] * b[2], a[2] * b[1])
RLt(a, b) == a[1] * b[2] < b[1] * a[2]
RLe(a, b) == a[1] * b[2] <= b[1] * a[2]

(***************************************************************************)
(* cumulate_returns (lines 417-429)                                        *)
(***************************************************************************)
\* one pass of the loop body: r0 = (1 + r0) * (1 + r1) - 1
CumulateStepMissingMinusOne(r0, r1) == RMul(RAdd(One, r0), RAdd(One, r1))
CumulateStepAdditive(r0, r1) == RAdd(r0, r1)
CumulateStep(r0, r1) == RSub(RMul(RAdd(One, r0), RAdd(One, r1)), One)

\* the value of r0 after the first k returns
RECURSIVE RunningReturnSkipsFirst(_, _)
RunningReturnSkipsFirst(rs, k) ==
    IF k <= 1 THEN Zero
    ELSE CumulateStep(RunningReturnSkipsFirst(rs, k - 1), rs[k])
RECURSIVE RunningReturn(_, _)
RunningReturn(rs, k) ==
    IF k = 0 THEN Zero ELSE CumulateStep(RunningReturn(rs, k - 1), rs[k])

cumulate_returns(rs) == [k \in 1..Len(rs) |-> RunningReturn(rs, k)]

(***************************************************************************)
(* compute_returns_overnight_intraday (lines 644-677)                      *)
(***************************************************************************)
\* timedelta(days=14), line 674
GapDays == 14

NoReturns(e) == [status |-> e, returns_overnight |-> <<>>, returns_intraday |-> <<>>]

\* line 663: price_close[i] / price_open[i] - 1
IntradayOffByOne(price_open, price_close, i) ==
    RSub(RDiv(price_close[i], price_open[i]), R(2))
Intraday(price_open, price_close, i) ==
    RSub(RDiv(price_close[i], price_open[i]), One)

returns_intraday(price_open, price_close) ==
    [i \in 1..Len(price_open) |-> Intraday(price_open, price_close, i)]

\* line 667: [0.] + [price_close_adj[i] / price_close_adj[i-1] - 1 ...]
returns_close_to_close_inverted(price_close_adj) ==
    [i \in 1..Len(price_close_adj) |->
        IF i = 1 THEN Zero
        ELSE RSub(RDiv(price_close_adj[i - 1], price_close_adj[i]), One)]
returns_close_to_close(price_close_adj) ==
    [i \in 1..Len(price_close_adj) |->
        IF i = 1 THEN Zero
        ELSE RSub(RDiv(price_close_adj[i], price_close_adj[i - 1]), One)]

\* line 674: dates_datetime[i] - dates_datetime[i-1] < timedelta(days=14)
NoBigGapInclusive(dates_datetime, i) ==
    dates_datetime[i] - dates_datetime[i - 1] <= GapDays
NoBigGap(dates_datetime, i) ==
    dates_datetime[i] - dates_datetime[i - 1] < GapDays

\* line 671: (1 + returns_close_to_close[i]) / (1 + returns_intraday[i]) - 1
ResidualDifference(ctc, intraday, i) == RSub(ctc[i], intraday[i])
Residual(ctc, intraday, i) ==
    RSub(RDiv(RAdd(One, ctc[i]), RAdd(One, intraday[i])), One)

\* lines 671-675: [0.] + [residual if no big gap else 0 ...]
OvernightFirstDayResidual(ctc, intraday, dates_datetime, i) ==
    IF i > 1 /\ ~NoBigGap(dates_datetime, i) THEN Zero
    ELSE Residual(ctc, intraday, i)
Overnight(ctc, intraday, dates_datetime, i) ==
    IF i = 1 THEN Zero
    ELSE IF NoBigGap(dates_datetime, i) THEN Residual(ctc, intraday, i)
    ELSE Zero

\* lines 671-675: the list of n overnight returns
returns_overnight_without_first(ctc, intraday, dates_datetime) ==
    [i \in 1..(Len(dates_datetime) - 1) |->
        Overnight(ctc, intraday, dates_datetime, i + 1)]
returns_overnight(ctc, intraday, dates_datetime) ==
    [i \in 1..Len(dates_datetime) |-> Overnight(ctc, intraday, dates_datetime, i)]

\* the divisions of lines 663, 667 and 671 that Python would refuse; the
\* conditional expression of line 671 divides only when the gap is small
DividesByZero(price_open, price_close, price_close_adj, dates_datetime) ==
    LET n == Len(dates_datetime) IN
    \/ \E i \in 1..n : price_open[i] = Zero
    \/ \E i \in 2..n : price_close_adj[i - 1] = Zero
    \/ /\ \A i \in 1..n : price_open[i] # Zero
       /\ \E i \in 2..n : /\ NoBigGap(dates_datetime, i)
                          /\ RAdd(One, Intraday(price_open, price_close, i)) = Zero

compute_returns_overnight_intraday(price_open, price_close, price_close_adj, dates_datetime) ==
    LET n == Len(dates_datetime) IN
    IF ~(Len(price_open) = Len(price_close) /\ Len(price_close) = Len(price_close_adj)
         /\ Len(price_close_adj) = n)
    THEN NoReturns("AssertionError")
    ELSE IF n = 0
    THEN [status |-> "ok", returns_overnight |-> <<>>, returns_intraday |-> <<>>]
    ELSE IF DividesByZero(price_open, price_close, price_close_adj, dates_datetime)
    THEN NoReturns("ZeroDivisionError")
    ELSE LET intraday == returns_intraday(price_open, price_close)
             ctc == returns_close_to_close(price_close_adj)
         IN  [status |-> "ok",
              returns_overnight |-> returns_overnight(ctc, intraday, dates_datetime),
              returns_intraday |-> intraday]

(***************************************************************************)
(* get_prices_open_close_adj_dates (lines 589-641)                         *)
(*                                                                         *)
(* original_data[1:] is a sequence of lines.  A line is a record: date is  *)
(* the text of its first field, open/high/low/close/adj_close the texts of *)
(* fields 1..5, null says that the line contains "null", blank that it is  *)
(* the empty string.  A number text [v, z] is the integer v written with z *)
(* trailing decimal zeros ("1" and "1.0" are different texts of one        *)
(* number).  A date text is the "%Y-%m-%d" text of a day ordinal.          *)
(***************************************************************************)
\* datetime(1990, 1, 1) and datetime(2021, 12, 31) as day ordinals
DEFAULT_START_DATE == 726468
DEFAULT_END_DATE == 738155

\* d.strftime(DATETIME_FORMAT), line 611
strftime(d) == <<"%Y-%m-%d", d>>
\* datetime(*map(int, d[0].split('-'))), line 624
ParseDate(text) == text[2]
\* float(d[k]), lines 618-622
Float(text) == R(text.v)

\* `x or default` on an optional argument: <<>> is None, <<d>> is the date d
OrDefault(x, default) == IF x = <<>> THEN default ELSE x[1]

\* lines 611-613: known bad dates, blank lines and lines with "null"
NotBadKeepingNull(line, bad_data_dates_str) ==
    ~line.blank /\ line.date \notin bad_data_dates_str
NotBad(line, bad_data_dates_str) ==
    ~line.blank /\ ~line.null /\ line.date \notin bad_data_dates_str

\* line 616: len(set(d[1:5])) > 1, a comparison of the four texts
NotFlat(d) == Cardinality({d.open, d.high, d.low, d.close}) > 1

\* line 618: float(d[1]) > 0
AnyOpen(d) == TRUE
PositiveOpen(d) == RLt(Zero, Float(d.open))

\* line 623: all(p > 0 for p in price_close_adj)
AdjustedClosesNonNegative(price_close_adj) ==
    \A i \in 1..Len(price_close_adj) : RLe(Zero, price_close_adj[i])
AdjustedClosesPositive(price_close_adj) ==
    \A i \in 1..Len(price_close_adj) : RLt(Zero, price_close_adj[i])

\* flags.index(True) as a 0-based index; -1 stands for the ValueError
\* raised when no entry is True
IndexOfTrue(flags) ==
    IF \E i \in 1..Len(flags) : flags[i]
    THEN (CHOOSE i \in 1..Len(flags) : flags[i] /\ \A j \in 1..(i - 1) : ~flags[j]) - 1
    ELSE -1

Max(a, b) == IF a >= b THEN a ELSE b

\* max(dates_datetime) of a non-empty list
MaxDate(dates_datetime) ==
    CHOOSE d \in {dates_datetime[i] : i \in 1..Len(dates_datetime)} :
        \A i \in 1..Len(dates_datetime) : dates_datetime[i] <= d

\* Python's s[d0:d1] for 0 <= d0 and 0 <= d1 <= len(s)
Slice(s, d0, d1) == SubSeq(s, d0 + 1, d1)

NoPrices(e) ==
    [status |-> e, price_open |-> <<>>, price_close |-> <<>>,
     price_close_adj |-> <<>>, dates_datetime |-> <<>>]

\* line 635: the test that decides whether the lists are sliced
ShouldSlice(d0, d1, n) == d0 > 1 \/ d1 < n

\* lines 630-635: the slice <<d0, d1>> that is returned, <<0, n>> when
\* line 635 leaves the lists alone, <<-1, -1>> when an index(True) or the
\* max() of an empty list raises ValueError
WindowBounds(price_open, price_close, dates_datetime, start, end) ==
    LET n == Len(dates_datetime)
        iOpen == IndexOfTrue([i \in 1..n |-> price_open[i] # price_close[i]])
        iStart == IndexOfTrue([i \in 1..n |-> dates_datetime[i] >= start])
        iEnd == IndexOfTrue([i \in 1..n |-> dates_datetime[i] > end])
    IN  IF iOpen = -1 \/ iStart = -1 \/ n = 0
        THEN <<-1, -1>>
        ELSE LET d0 == Max(iOpen, iStart)
                 d1 == IF end < MaxDate(dates_datetime)
                       THEN iEnd ELSE n
             IN  IF ShouldSlice(d0, d1, n) THEN <<d0, d1>> ELSE <<0, n>>

\* lines 630-641, given the lists built from the filtered rows
Window(price_open, price_close, price_close_adj, dates_datetime, start, end) ==
    LET b == WindowBounds(price_open, price_close, dates_datetime, start, end)
    IN  IF b[1] = -1
        THEN NoPrices("ValueError")
        ELSE [status |-> "ok",
              price_open |-> Slice(price_open, b[1], b[2]),
              price_close |-> Slice(price_close, b[1], b[2]),
              price_close_adj |-> Slice(price_close_adj, b[1], b[2]),
              dates_datetime |-> Slice(dates_datetime, b[1], b[2])]

\* lines 610-618: the rows left by the three filters
FilteredRowsNewestFirst(lines, bad_dates) ==
    LET bad_data_dates_str == {strftime(d) : d \in OrDefault(bad_dates, {})}
        Good(line) == NotBad(line, bad_data_dates_str)
        rows == SelectSeq(SelectSeq(SelectSeq(lines, Good), NotFlat), PositiveOpen)
    IN  [i \in 1..Len(rows) |-> rows[Len(rows) + 1 - i]]
FilteredRows(lines, bad_dates) ==
    LET bad_data_dates_str == {strftime(d) : d \in OrDefault(bad_dates, {})}
        Good(line) == NotBad(line, bad_data_dates_str)
    IN  SelectSeq(SelectSeq(SelectSeq(lines, Good), NotFlat), PositiveOpen)

get_prices_open_close_adj_dates(lines, start, end, bad_dates) ==
    LET data == FilteredRows(lines, bad_dates)
        n == Len(data)
        price_open == [i \in 1..n |-> Float(data[i].open)]
        price_close == [i \in 1..n |-> Float(data[i].close)]
        price_close_adj == [i \in 1..n |-> Float(data[i].adj_close)]
        dates_datetime == [i \in 1..n |-> ParseDate(data[i].date)]
    IN  IF ~AdjustedClosesPositive(price_close_adj)
        THEN NoPrices("AssertionError")
        ELSE Window(price_open, price_close, price_close_adj, dates_datetime,
                    OrDefault(start, DEFAULT_START_DATE),
                    OrDefault(end, DEFAULT_END_DATE))

(***************************************************************************)
(* PlotData (lines 680-742) and get_plot_data (lines 758-772)              *)
(***************************************************************************)
NoPlotData(e) ==
    [status |-> e, dates_datetime |-> <<>>, returns_overnight |-> <<>>,
     returns_intraday |-> <<>>]

\* PlotData.__init__, lines 691-696
PlotDataAnyFirstOvernight(dates, overnight, intraday) ==
    IF ~(Len(dates) = Len(overnight) /\ Len(overnight) = Len(intraday))
    THEN NoPlotData("AssertionError")
    ELSE IF Len(overnight) = 0
    THEN NoPlotData("IndexError")
    ELSE [status |-> "ok", dates_datetime |-> dates,
          returns_overnight |-> overnight, returns_intraday |-> intraday]
PlotData(dates, overnight, intraday) ==
    IF ~(Len(dates) = Len(overnight) /\ Len(overnight) = Len(intraday))
    THEN NoPlotData("AssertionError")
    ELSE IF Len(overnight) = 0
    THEN NoPlotData("IndexError")
    ELSE IF overnight[1] # Zero
    THEN NoPlotData("AssertionError")
    ELSE [status |-> "ok", dates_datetime |-> dates,
          returns_overnight |-> overnight, returns_intraday |-> intraday]

\* line 333
LINEAR_SCALES == {"percent", "fraction_of_unity", "currency"}

\* line 727: dict(linear=linear_scale, log="log")[vertical_scale]
vertical_choice(vertical_scale, linear_scale) ==
    IF vertical_scale = "linear" THEN linear_scale ELSE "log"

\* lines 728-732
r_func_log_as_percent(choice, r1) ==
    CASE choice = "percent" -> RMul(r1, R(100))
      [] choice = "currency" -> RAdd(r1, One)
      [] choice = "fraction_of_unity" -> r1
      [] choice = "log" -> RMul(r1, R(100))
r_func(choice, r1) ==
    CASE choice = "percent" -> RMul(r1, R(100))
      [] choice = "currency" -> RAdd(r1, One)
      [] choice = "fraction_of_unity" -> r1
      [] choice = "log" -> RAdd(r1, One)

NoCurves(e, vertical_scale, linear_scale) ==
    [status |-> e, vertical_scale |-> vertical_scale, linear_scale |-> linear_scale,
     overnight_curve |-> <<>>, intraday_curve |-> <<>>]

\* PlotData.plot_data, lines 724-742, without the drawing calls
plot_data(self, vertical_scale, linear_scale) ==
    IF vertical_scale \notin {"linear", "log"}
    THEN NoCurves("AssertionError", vertical_scale, linear_scale)
    ELSE IF vertical_scale = "linear" /\ linear_scale \notin LINEAR_SCALES
    THEN NoCurves("AssertionError", vertical_scale, linear_scale)
    ELSE LET choice == vertical_choice(vertical_scale, linear_scale)
             co == cumulate_returns(self.returns_overnight)
             ci == cumulate_returns(self.returns_intraday)
             overnight_curve == [i \in 1..Len(co) |-> r_func(choice, co[i])]
             intraday_curve == [i \in 1..Len(ci) |-> r_func(choice, ci[i])]
         IN  IF Len(overnight_curve) = 0
             THEN NoCurves("IndexError", vertical_scale, linear_scale)
             ELSE IF overnight_curve[1] # r_func(choice, Zero)
             THEN NoCurves("AssertionError", vertical_scale, linear_scale)
             ELSE [status |-> "ok", vertical_scale |-> vertical_scale,
                   linear_scale |-> linear_scale,
                   overnight_curve |-> overnight_curve,
                   intraday_curve |-> intraday_curve]

\* linear_scale_start_value, lines 386-394: the value at which the curves
\* are said to start
linear_scale_start_value_all_zero(linear_scale) ==
    IF linear_scale \notin LINEAR_SCALES
    THEN [status |-> "AssertionError", value |-> Zero]
    ELSE [status |-> "ok", value |-> R(0)]
linear_scale_start_value(linear_scale) ==
    IF linear_scale \notin LINEAR_SCALES
    THEN [status |-> "AssertionError", value |-> Zero]
    ELSE [status |-> "ok",
          value |-> CASE linear_scale = "percent" -> R(0)
                      [] linear_scale = "fraction_of_unity" -> R(0)
                      [] linear_scale = "currency" -> R(1)]

\* clip, lines 466-470
clip_below_only(x, lo, hi) ==
    IF RLt(x, lo) THEN lo ELSE x
clip(x, lo, hi) ==
    IF RLt(x, lo) THEN lo
    ELSE IF RLt(hi, x) THEN hi
    ELSE x

NoSamples(e) == [status |-> e, overnight |-> <<>>, intraday |-> <<>>]

\* PlotData.histogram_returns, lines 746-754: the two samples handed to
\* hist(), without the drawing
histogram_returns(self) ==
    IF Len(self.returns_overnight) # Len(self.returns_intraday)
    THEN NoSamples("AssertionError")
    ELSE IF Len(self.returns_overnight) = 0
    THEN NoSamples("IndexError")
    ELSE IF self.returns_overnight[1] # Zero
    THEN NoSamples("AssertionError")
    ELSE LET r == R(3)
             c == RSub(r, Rat(7, 100))
             Sample(r1) == clip(RMul(r1, R(100)), RSub(Zero, c), c)
         IN  [status |-> "ok",
              overnight |-> [i \in 1..(Len(self.returns_overnight) - 1) |->
                                Sample(self.returns_overnight[i + 1])],
              intraday |-> [i \in 1..Len(self.returns_intraday) |->
                               Sample(self.returns_intraday[i])]]

(***************************************************************************)
(* The provider files and symbol details the model draws from.             *)
(***************************************************************************)
MaxRows == 3

Txt(v) == [v |-> v, z |-> 0]
TxtZ(v) == [v |-> v, z |-> 1]

\* <<open, high, low, close, adjusted close, contains "null">>
LineShapes ==
    {<<Txt(1), Txt(2), Txt(1), Txt(2), Txt(3), FALSE>>,   \* a trading day
     <<Txt(1), Txt(2), Txt(1), Txt(1), Txt(1), FALSE>>,   \* open = close
     <<Txt(1), Txt(1), Txt(1), Txt(1), Txt(-1), FALSE>>,  \* flat
     <<TxtZ(1), Txt(1), Txt(1), Txt(1), Txt(1), FALSE>>,  \* flat, "1.0" for "1"
     <<Txt(0), Txt(2), Txt(0), Txt(2), Txt(-1), FALSE>>,  \* open 0
     <<Txt(1), Txt(2), Txt(1), Txt(2), Txt(0), FALSE>>,   \* adjusted close 0
     <<Txt(1), Txt(1), Txt(0), Txt(0), Txt(1), FALSE>>,   \* close 0
     <<Txt(1), Txt(2), Txt(1), Txt(2), Txt(0), TRUE>>}    \* a null field

\* the day before the default window, its first day, the day after it
LineDays == {DEFAULT_START_DATE - 1, DEFAULT_START_DATE, DEFAULT_END_DATE + 1}

\* the symbol's details: start_date, end_date, bad_data_dates (<<>> is None)
StartDates == {<<>>, <<DEFAULT_START_DATE - 1>>}
EndDates == {<<>>, <<DEFAULT_START_DATE - 1>>}
BadDates == {<<>>, <<{DEFAULT_START_DATE}>>}

\* the empty string that ends the list when the file ends with a newline
BlankLine ==
    [date |-> strftime(0), open |-> Txt(0), high |-> Txt(0), low |-> Txt(0),
     close |-> Txt(0), adj_close |-> Txt(0), null |-> FALSE, blank |-> TRUE]

Line(shape, day) ==
    [date |-> strftime(day), open |-> shape[1], high |-> shape[2],
     low |-> shape[3], close |-> shape[4], adj_close |-> shape[5],
     null |-> shape[6], blank |-> FALSE]

(***************************************************************************)
(* State machine.  pc names what the program holds:                        *)
(*   "raw"        the provider's lines and the symbol's details are read   *)
(*   "prices"     the four parallel lists are ready for decomposition      *)
(*   "decomposed" compute_returns_overnight_intraday has returned          *)
(*   "returns"    a return list is ready for cumulate_returns              *)
(*   "plot_data"  get_plot_data has returned a PlotData                    *)
(*   "none"       get_plot_data has returned None                          *)
(*   "plotted"    PlotData.plot_data has returned the two curves           *)
(*   "histogram"  PlotData.histogram_returns has drawn the two samples     *)
(*   "cumulated"  cumulate_returns has returned                            *)
(*   "raised"     the last call raised                                     *)
(***************************************************************************)
Unset == <<>>

ComputeReturnsConsumingPrices ==
    /\ pc = "prices"
    /\ prices.status = "ok"
    /\ rets' = compute_returns_overnight_intraday(
                   prices.price_open, prices.price_close,
                   prices.price_close_adj, prices.dates_datetime)
    /\ pc' = IF rets'.status = "ok" THEN "decomposed" ELSE "raised"
    /\ prices' = NoPrices("ok")
    /\ UNCHANGED <<original_data, start_date, end_date, bad_data_dates,
                   plot, curves, returns, cumulated, samples>>
ComputeReturns ==
    /\ pc = "prices"
    /\ prices.status = "ok"
    /\ rets' = compute_returns_overnight_intraday(
                   prices.price_open, prices.price_close,
                   prices.price_close_adj, prices.dates_datetime)
    /\ pc' = IF rets'.status = "ok" THEN "decomposed" ELSE "raised"
    /\ UNCHANGED <<original_data, start_date, end_date, bad_data_dates,
                   prices, plot, curves, returns, cumulated, samples>>

\* get_plot_data, lines 766-769: the symbol's details are looked up and
\* passed to get_prices_open_close_adj_dates with the provider's lines
Clean ==
    /\ pc = "raw"
    /\ start_date' \in StartDates
    /\ end_date' \in EndDates
    /\ bad_data_dates' \in BadDates
    /\ prices' = get_prices_open_close_adj_dates(
                     original_data, start_date', end_date', bad_data_dates')
    /\ pc' = IF prices'.status = "ok" THEN "prices" ELSE "raised"
    /\ UNCHANGED <<original_data, rets, plot, curves, returns, cumulated, samples>>

\* get_plot_data, line 772
MakePlotDataNoneForOneRow ==
    /\ pc = "decomposed"
    /\ plot' = IF Len(prices.dates_datetime) > 1
               THEN PlotData(prices.dates_datetime, rets.returns_overnight,
                             rets.returns_intraday)
               ELSE NoPlotData("None")
    /\ pc' = CASE plot'.status = "ok" -> "plot_data"
               [] plot'.status = "None" -> "none"
               [] OTHER -> "raised"
    /\ UNCHANGED <<original_data, start_date, end_date, bad_data_dates,
                   prices, rets, curves, returns, cumulated, samples>>
MakePlotDataUnguarded ==
    /\ pc = "decomposed"
    /\ plot' = PlotData(prices.dates_datetime, rets.returns_overnight,
                        rets.returns_intraday)
    /\ pc' = IF plot'.status = "ok" THEN "plot_data" ELSE "raised"
    /\ UNCHANGED <<original_data, start_date, end_date, bad_data_dates,
                   prices, rets, curves, returns, cumulated, samples>>
MakePlotData ==
    /\ pc = "decomposed"
    /\ plot' = IF prices.dates_datetime # <<>>
               THEN PlotData(prices.dates_datetime, rets.returns_overnight,
                             rets.returns_intraday)
               ELSE NoPlotData("None")
    /\ pc' = CASE plot'.status = "ok" -> "plot_data"
               [] plot'.status = "None" -> "none"
               [] OTHER -> "raised"
    /\ UNCHANGED <<original_data, start_date, end_date, bad_data_dates,
                   prices, rets, curves, returns, cumulated, samples>>

\* the linear_scale arguments a caller passes: the three scales and a
\* string that is none of them
LinearScaleInputs == LINEAR_SCALES \cup {"unknown"}

\* a caller's plot_data.plot_data(ax, vertical_scale, linear_scale)
PlotCurves ==
    /\ pc = "plot_data"
    /\ \E vertical_scale \in {"linear", "log"},
          linear_scale \in LinearScaleInputs :
            curves' = plot_data(plot, vertical_scale, linear_scale)
    /\ pc' = IF curves'.status = "ok" THEN "plotted" ELSE "raised"
    /\ UNCHANGED <<original_data, start_date, end_date, bad_data_dates,
                   prices, rets, plot, returns, cumulated, samples>>

\* a caller's plot_data.histogram_returns(), line 1457
Histogram ==
    /\ pc = "plot_data"
    /\ samples' = histogram_returns(plot)
    /\ pc' = IF samples'.status = "ok" THEN "histogram" ELSE "raised"
    /\ UNCHANGED <<original_data, start_date, end_date, bad_data_dates,
                   prices, rets, plot, curves, returns, cumulated>>

Cumulate ==
    /\ pc = "returns"
    /\ cumulated' = cumulate_returns(returns)
    /\ pc' = "cumulated"
    /\ UNCHANGED <<original_data, start_date, end_date, bad_data_dates,
                   prices, rets, plot, curves, returns, samples>>

(***************************************************************************)
(* SpecCumulate: cumulate_returns on every return list of up to MaxReturns *)
(* entries over ReturnPool.                                                *)
(***************************************************************************)
MaxReturns == 4

ReturnPool == {R(-1), Rat(-1, 2), Zero, Rat(1, 2), R(1)}

InitCumulate ==
    /\ pc = "returns"
    /\ \E n \in 0..MaxReturns : returns \in [1..n -> ReturnPool]
    /\ cumulated = Unset
    /\ original_data = Unset /\ start_date = Unset /\ end_date = Unset
    /\ bad_data_dates = Unset /\ prices = Unset /\ rets = Unset
    /\ plot = Unset /\ curves = Unset /\ samples = Unset

NextCumulate == Cumulate

SpecCumulate == InitCumulate /\ [][NextCumulate]_vars

(***************************************************************************)
(* SpecReturns: compute_returns_overnight_intraday on every series of up   *)
(* to MaxDays rows over PriceShapes, consecutive dates DayGaps apart.      *)
(***************************************************************************)
MaxDays == 3

\* <<open, close, adjusted close>>
PriceShapes == {<<1, 2, 2>>, <<2, 1, 1>>, <<1, 2, 3>>,
                <<0, 1, 1>>, <<1, 0, 1>>, <<1, 1, 0>>}

DayGaps == {1, 13, 14, 20}

RECURSIVE DayAfterGaps(_, _, _)
DayAfterGaps(first, gaps, i) ==
    IF i = 1 THEN first ELSE DayAfterGaps(first, gaps, i - 1) + gaps[i]

InitReturns ==
    /\ pc = "prices"
    /\ \E n \in 0..MaxDays :
         \E shapes \in [1..n -> PriceShapes], gaps \in [2..n -> DayGaps] :
            prices = [status |-> "ok",
                      price_open |-> [i \in 1..n |-> R(shapes[i][1])],
                      price_close |-> [i \in 1..n |-> R(shapes[i][2])],
                      price_close_adj |-> [i \in 1..n |-> R(shapes[i][3])],
                      dates_datetime |->
                          [i \in 1..n |-> DayAfterGaps(DEFAULT_START_DATE, gaps, i)]]
    /\ rets = Unset
    /\ original_data = Unset /\ start_date = Unset /\ end_date = Unset
    /\ bad_data_dates = Unset /\ returns = Unset /\ cumulated = Unset
    /\ plot = Unset /\ curves = Unset /\ samples = Unset

NextReturns == ComputeReturns

SpecReturns == InitReturns /\ [][NextReturns]_vars

(***************************************************************************)
(* The provider files of up to max lines over LineShapes, with             *)
(* non-decreasing dates from LineDays and a final newline, before          *)
(* get_plot_data has looked up the symbol's details.                       *)
(***************************************************************************)
InitFiles(max) ==
    /\ pc = "raw"
    /\ \E n \in 0..max :
         \E shapes \in [1..n -> LineShapes], days \in [1..n -> LineDays] :
            /\ \A i \in 2..n : days[i - 1] <= days[i]
            /\ original_data =
                  [i \in 1..n |-> Line(shapes[i], days[i])] \o <<BlankLine>>
    /\ start_date = Unset /\ end_date = Unset /\ bad_data_dates = Unset
    /\ prices = Unset /\ rets = Unset /\ plot = Unset /\ curves = Unset
    /\ returns = Unset /\ cumulated = Unset /\ samples = Unset

(***************************************************************************)
(* SpecClean: get_prices_open_close_adj_dates on every provider file of up *)
(* to MaxRows lines, under each of the symbol details in StartDates,       *)
(* EndDates and BadDates.                                                  *)
(***************************************************************************)
InitClean == InitFiles(MaxRows)

NextClean == Clean

SpecClean == InitClean /\ [][NextClean]_vars

(***************************************************************************)
(* SpecPlot: get_plot_data followed by plot_data, on every provider file   *)
(* of up to MaxPlotRows lines, under each of the symbol details.           *)
(***************************************************************************)
MaxPlotRows == 2

InitPlot == InitFiles(MaxPlotRows)

NextPlot == Clean \/ ComputeReturns \/ MakePlotData \/ PlotCurves

SpecPlot == InitPlot /\ [][NextPlot]_vars

(***************************************************************************)
(* SpecCurves: plot_data and histogram_returns on every PlotData built     *)
(* (as at line 1052) from return lists of up to MaxPlotDays entries over   *)
(* PlotReturnPool; the list of dates has the length of the return lists or *)
(* one more.                                                               *)
(***************************************************************************)
MaxPlotDays == 3

\* a total loss, no change, one percent, a doubling
PlotReturnPool == {R(-1), Zero, Rat(1, 100), R(1)}

InitCurves ==
    /\ \E n \in 0..MaxPlotDays, m \in 0..(MaxPlotDays + 1) :
         \E overnight \in [1..n -> PlotReturnPool],
            intraday \in [1..n -> PlotReturnPool] :
            /\ m \in {n, n + 1}
            /\ plot = PlotData([i \in 1..m |-> DEFAULT_START_DATE + i - 1],
                               overnight, intraday)
    /\ pc = IF plot.status = "ok" THEN "plot_data" ELSE "raised"
    /\ curves = Unset /\ samples = Unset
    /\ original_data = Unset /\ start_date = Unset /\ end_date = Unset
    /\ bad_data_dates = Unset /\ prices = Unset /\ rets = Unset
    /\ returns = Unset /\ cumulated = Unset

NextCurves == PlotCurves \/ Histogram

SpecCurves == InitCurves /\ [][NextCurves]_vars

(***************************************************************************)
(* Properties of compute_returns_overnight_intraday, under SpecReturns.    *)
(* Index i below is Python's index i - 1.  The right-hand sides are        *)
(* stated by cross-multiplication from the input prices, which in exact    *)
(* arithmetic is the quotient form whenever the call returned.             *)
(***************************************************************************)
Decomposed == pc = "decomposed"
Days == 1..Len(prices.dates_datetime)
LaterDays == 2..Len(prices.dates_datetime)
DaysBetween(i) == prices.dates_datetime[i] - prices.dates_datetime[i - 1]
Growth(r) == RAdd(One, r)

\* C1: wherever decompose returns, for every day after the first that is
\* less than 14 calendar days after the previous one,
\* (1 + overnight[i]) * (1 + intraday[i]) - 1 = adjustedClose[i] / adjustedClose[i-1] - 1.
C1_ReconstructsCloseToClose ==
    Decomposed =>
        \A i \in LaterDays :
            DaysBetween(i) < 14 =>
                /\ RMul(RMul(Growth(rets.returns_overnight[i]),
                             Growth(rets.returns_intraday[i])),
                        prices.price_close_adj[i - 1]) = prices.price_close_adj[i]
                /\ RSub(RMul(Growth(rets.returns_overnight[i]),
                             Growth(rets.returns_intraday[i])), One)
                     = RSub(Rat(prices.price_close_adj[i][1] * prices.price_close_adj[i - 1][2],
                                prices.price_close_adj[i][2] * prices.price_close_adj[i - 1][1]),
                            One)

C1_Witness ==
    /\ Decomposed
    /\ \E i \in LaterDays :
         /\ DaysBetween(i) < 14
         /\ rets.returns_overnight[i] # Zero
         /\ rets.returns_intraday[i] # Zero
         /\ prices.price_close_adj[i] # prices.price_close[i]

\* C2: wherever decompose returns, for every day after the first: a gap of
\* 14 calendar days or more (exactly 14 included) gives overnight[i] = 0
\* whatever the prices; a gap under 14 days (13 included) gives the residual
\* (1 + closeToClose[i]) / (1 + intraday[i]) - 1.
C2_GapZeroing ==
    Decomposed =>
        \A i \in LaterDays :
            /\ DaysBetween(i) >= 14 => rets.returns_overnight[i] = Zero
            /\ DaysBetween(i) < 14 =>
                  RMul(RMul(Growth(rets.returns_overnight[i]),
                            Growth(rets.returns_intraday[i])),
                       prices.price_close_adj[i - 1]) = prices.price_close_adj[i]

C2_Witness ==
    /\ Decomposed
    /\ \E i \in LaterDays :
         /\ DaysBetween(i) = 14
         /\ prices.price_close_adj[i] # prices.price_close_adj[i - 1]
         /\ prices.price_open[i] # prices.price_close[i - 1]
         /\ rets.returns_overnight[i] = Zero
    /\ \E i \in LaterDays :
         /\ DaysBetween(i) = 13
         /\ rets.returns_overnight[i] # Zero

\* C3: wherever decompose returns on a non-empty input, overnight[0] = 0,
\* whatever the prices and dates.
C3_FirstOvernightZero ==
    (Decomposed /\ Len(prices.dates_datetime) > 0) =>
        /\ Len(rets.returns_overnight) > 0
        /\ rets.returns_overnight[1] = Zero

C3_Witness ==
    /\ Decomposed
    /\ Len(prices.dates_datetime) > 1
    /\ prices.price_open[1] # prices.price_close[1]
    /\ prices.price_close_adj[1] # prices.price_close[1]
    /\ rets.returns_overnight[1] = Zero

\* C4: wherever decompose returns, intraday[i] = close[i] / open[i] - 1 for
\* every day i: a value fixed by row i's own open and close alone.
C4_IntradayOwnRow ==
    Decomposed =>
        /\ Len(rets.returns_intraday) = Len(prices.dates_datetime)
        /\ \A i \in Days :
              RMul(Growth(rets.returns_intraday[i]), prices.price_open[i])
                  = prices.price_close[i]

\* two rows with the same open and close, different adjusted closes and
\* different gaps to their predecessors, get the same intraday return
C4_Witness ==
    /\ Decomposed
    /\ \E i, j \in LaterDays :
         /\ prices.price_open[i] = prices.price_open[j]
         /\ prices.price_close[i] = prices.price_close[j]
         /\ prices.price_close_adj[i] # prices.price_close_adj[j]
         /\ DaysBetween(i) >= 14 /\ DaysBetween(j) < 14
         /\ rets.returns_intraday[i] = rets.returns_intraday[j]
         /\ rets.returns_intraday[i] # Zero

\* C5: wherever decompose returns, for every day after the first with a gap
\* under 14 days whose adjusted close equals its raw close on that day and
\* the day before, overnight[i] = open[i] / close[i-1] - 1.
C5_OvernightIsCloseToOpen ==
    Decomposed =>
        \A i \in LaterDays :
            (/\ DaysBetween(i) < 14
             /\ prices.price_close_adj[i] = prices.price_close[i]
             /\ prices.price_close_adj[i - 1] = prices.price_close[i - 1]) =>
                RMul(Growth(rets.returns_overnight[i]), prices.price_close[i - 1])
                    = prices.price_open[i]

C5_Witness ==
    /\ Decomposed
    /\ \E i \in LaterDays :
         /\ DaysBetween(i) < 14
         /\ prices.price_close_adj[i] = prices.price_close[i]
         /\ prices.price_close_adj[i - 1] = prices.price_close[i - 1]
         /\ prices.price_open[i] # prices.price_close[i - 1]
         /\ prices.price_open[i] # prices.price_close[i]
         /\ rets.returns_overnight[i] # Zero

(***************************************************************************)
(* Properties of cumulate_returns, under SpecCumulate.                     *)
(***************************************************************************)
Cumulated == pc = "cumulated"

\* the product of (1 + r[k]) over the first i returns
RECURSIVE GrowthProduct(_, _)
GrowthProduct(rs, i) ==
    IF i = 0 THEN One ELSE RMul(GrowthProduct(rs, i - 1), Growth(rs[i]))

\* C6: cumulate_returns(r) has the length of r (empty for empty r) and its
\* entry i is the product of (1 + r[k]) over k = 0..i, minus 1.
C6_CompoundingIdentity ==
    Cumulated =>
        /\ Len(cumulated) = Len(returns)
        /\ \A i \in 1..Len(returns) :
              cumulated[i] = RSub(GrowthProduct(returns, i), One)

C6_Witness ==
    /\ Cumulated
    /\ Len(returns) >= 3
    /\ \A k \in 1..Len(returns) : returns[k] \notin {Zero, R(-1)}
    /\ \E j, k \in 1..Len(returns) : returns[j] # returns[k]

\* C8: cumulate_returns of n zeros is n zeros, for every n >= 0.
C8_ZeroFixedPoint ==
    (Cumulated /\ \A k \in 1..Len(returns) : returns[k] = Zero) =>
        /\ Len(cumulated) = Len(returns)
        /\ \A k \in 1..Len(cumulated) : cumulated[k] = Zero

C8_Witness ==
    /\ Cumulated
    /\ Len(returns) >= 3
    /\ \A k \in 1..Len(returns) : returns[k] = Zero
    /\ \A k \in 1..Len(cumulated) : cumulated[k] = Zero

(***************************************************************************)
(* Properties of the pipeline, under SpecPlot.                             *)
(***************************************************************************)
Plotted == pc = "plotted"

\* the curves of the fraction_of_unity scale are the cumulated returns
PlottedAsFractions ==
    /\ Plotted
    /\ curves.vertical_scale = "linear"
    /\ curves.linear_scale = "fraction_of_unity"

NoBigGaps == \A i \in LaterDays : DaysBetween(i) < 14

\* closeToClose[0] = 0, closeToClose[k] = adjustedClose[k] / adjustedClose[k-1] - 1
CloseToClose ==
    [k \in Days |->
        IF k = 1 THEN Zero
        ELSE RSub(Rat(prices.price_close_adj[k][1] * prices.price_close_adj[k - 1][2],
                      prices.price_close_adj[k][2] * prices.price_close_adj[k - 1][1]),
                  One)]

\* C7 as claimed: for a cleaned series without a gap of 14 days or more,
\* (1 + cumulate(overnight)[i]) * (1 + cumulate(intraday)[i])
\* = 1 + cumulate(closeToClose)[i] at every index i.
C7_CurvesReconstructCloseToClose ==
    (PlottedAsFractions /\ NoBigGaps) =>
        \A i \in Days :
            RMul(Growth(curves.overnight_curve[i]), Growth(curves.intraday_curve[i]))
                = GrowthProduct(CloseToClose, i)

\* C7 as amended: for a cleaned series without a gap of 14 days or more,
\* (1 + cumulate(overnight)[i]) * (1 + cumulate(intraday)[i])
\* = (1 + intraday[0]) * (1 + cumulate(closeToClose)[i]) at every index i:
\* the first day's intraday return is in the intraday curve and in no
\* close-to-close return.
C7_CurvesReconstructFromFirstOpen ==
    (PlottedAsFractions /\ NoBigGaps) =>
        \A i \in Days :
            RMul(Growth(curves.overnight_curve[i]), Growth(curves.intraday_curve[i]))
                = RMul(Growth(rets.returns_intraday[1]), GrowthProduct(CloseToClose, i))

C7_Witness ==
    /\ PlottedAsFractions
    /\ NoBigGaps
    /\ Len(prices.dates_datetime) >= 2
    /\ \A i \in LaterDays : DaysBetween(i) > 0
    /\ rets.returns_intraday[1] # Zero
    /\ \E i \in LaterDays : rets.returns_overnight[i] # Zero
    /\ \E i \in LaterDays : prices.price_close_adj[i] # prices.price_close_adj[1]

(***************************************************************************)
(* Failures of get_prices_open_close_adj_dates and its date window, under  *)
(* SpecClean.                                                              *)
(***************************************************************************)
\* the lines of the file that pass the bad-date/null filter, the flat
\* open-high-low-close filter and the open <= 0 filter
Excluded(line) ==
    bad_data_dates # <<>> /\ ParseDate(line.date) \in bad_data_dates[1]
Survives(line) ==
    /\ ~line.blank /\ ~line.null /\ ~Excluded(line)
    /\ ~(line.open = line.high /\ line.high = line.low /\ line.low = line.close)
    /\ line.open.v > 0
SurvivingLines == {i \in 1..Len(original_data) : Survives(original_data[i])}
EffectiveStart == IF start_date = <<>> THEN DEFAULT_START_DATE ELSE start_date[1]
EffectiveEnd == IF end_date = <<>> THEN DEFAULT_END_DATE ELSE end_date[1]
CleanCalled == pc # "raw"

\* C9: once clean has been called on a file in which a line that survives
\* the three filters has an adjusted close <= 0, it has failed with the
\* data-integrity error and returned no series, wherever that line's date
\* lies relative to the window.
C9_BadAdjustedCloseFails ==
    (CleanCalled /\ \E i \in SurvivingLines : original_data[i].adj_close.v <= 0) =>
        /\ pc = "raised"
        /\ prices.status = "AssertionError"
        /\ prices.dates_datetime = <<>> /\ prices.price_open = <<>>
        /\ prices.price_close = <<>> /\ prices.price_close_adj = <<>>

\* the offending line lies after the window, next to good lines inside it
C9_Witness ==
    /\ CleanCalled
    /\ prices.status = "AssertionError"
    /\ \E i \in SurvivingLines :
         /\ original_data[i].adj_close.v <= 0
         /\ ParseDate(original_data[i].date) > EffectiveEnd
    /\ \E i \in SurvivingLines :
         /\ original_data[i].adj_close.v > 0
         /\ ParseDate(original_data[i].date) >= EffectiveStart
         /\ ParseDate(original_data[i].date) <= EffectiveEnd
    /\ \A i \in SurvivingLines :
         original_data[i].adj_close.v <= 0 =>
            ParseDate(original_data[i].date) > EffectiveEnd

\* C10: every row of a series returned by clean has a date d with
\* startDate <= d <= endDate (1990-01-01 and 2021-12-31 when not given).
C10_RowsInsideWindow ==
    pc = "prices" =>
        \A i \in Days :
            /\ EffectiveStart <= prices.dates_datetime[i]
            /\ prices.dates_datetime[i] <= EffectiveEnd

(***************************************************************************)
(* Properties of get_prices_open_close_adj_dates, under SpecClean.  The    *)
(* returned rows are named by the lines they come from: the surviving      *)
(* lines in file order, cut to the slice that the call returns.            *)
(***************************************************************************)
CleanReturned == pc # "raw" /\ prices.status = "ok"

SurvivingRows == SelectSeq(original_data, Survives)
BoundsOf(rows) ==
    WindowBounds([i \in 1..Len(rows) |-> Float(rows[i].open)],
                 [i \in 1..Len(rows) |-> Float(rows[i].close)],
                 [i \in 1..Len(rows) |-> ParseDate(rows[i].date)],
                 EffectiveStart, EffectiveEnd)
ReturnedLines ==
    LET rows == SurvivingRows
        b == BoundsOf(rows)
    IN  Slice(rows, b[1], b[2])
IsTheSeries(lines) ==
    /\ Len(lines) = Len(prices.dates_datetime)
    /\ \A i \in 1..Len(lines) :
         /\ ParseDate(lines[i].date) = prices.dates_datetime[i]
         /\ Float(lines[i].open) = prices.price_open[i]
         /\ Float(lines[i].close) = prices.price_close[i]
         /\ Float(lines[i].adj_close) = prices.price_close_adj[i]

OpenIsClose(line) == line.open.v = line.close.v
\* 1-based index of the first of rows whose open differs from its close
FirstOpenDiffers(rows) ==
    CHOOSE k \in 1..(Len(rows) + 1) :
        /\ \A j \in 1..(k - 1) : OpenIsClose(rows[j])
        /\ k <= Len(rows) => ~OpenIsClose(rows[k])

\* C11: every row of a series returned by clean is at or after the first
\* filtered row whose open differs from its close; no row of the leading
\* run of rows with open = close is returned.
C11_LeadingRunSkipped ==
    CleanReturned =>
        LET rows == SurvivingRows
            b == BoundsOf(rows)
        IN  /\ IsTheSeries(Slice(rows, b[1], b[2]))
            /\ b[1] < b[2] => b[1] + 1 >= FirstOpenDiffers(rows)

NumericallyFlat(line) ==
    /\ line.open.v = line.high.v
    /\ line.high.v = line.low.v
    /\ line.low.v = line.close.v

\* C12: no row whose open, high, low and close are all numerically equal
\* is in a series returned by clean, whatever the texts of the four numbers.
C12_NoFlatRowReturned ==
    CleanReturned =>
        LET lines == ReturnedLines
        IN  /\ IsTheSeries(lines)
            /\ \A i \in 1..Len(lines) : ~NumericallyFlat(lines[i])

\* the file without its lines dated in bad_data_dates and its lines
\* that contain "null"
WithoutBadRows ==
    LET Kept(line) == ~Excluded(line) /\ ~line.null
    IN  SelectSeq(original_data, Kept)

\* C13: the result of clean, a series or a failure, is the result of clean
\* with no excluded dates on the file from which every line dated in
\* bad_data_dates and every line containing "null" has been deleted, and no
\* date of a returned series is in bad_data_dates.
C13_BadRowsWithoutInfluence ==
    CleanCalled =>
        /\ prices = get_prices_open_close_adj_dates(
                        WithoutBadRows, start_date, end_date, <<>>)
        /\ bad_data_dates # <<>> =>
              \A i \in 1..Len(prices.dates_datetime) :
                  prices.dates_datetime[i] \notin bad_data_dates[1]

\* a series is returned from a file with an excluded line and a null line
\* that pass the other two filters
PassesPriceFilters(line) ==
    ~line.blank /\ NotFlat(line) /\ PositiveOpen(line)
C13_Witness ==
    /\ CleanReturned
    /\ prices.dates_datetime # <<>>
    /\ \E i \in 1..Len(original_data) :
          Excluded(original_data[i]) /\ ~original_data[i].null
          /\ PassesPriceFilters(original_data[i])
    /\ \E i \in 1..Len(original_data) :
          original_data[i].null /\ ~Excluded(original_data[i])
          /\ PassesPriceFilters(original_data[i])

\* the lines of the file that are rows: all but the empty string at its end
RawRows == {i \in 1..Len(original_data) : ~original_data[i].blank}

\* C14: when every row of the file is dated in bad_data_dates, clean
\* returns the empty series.
C14_AllExcludedReturnsEmpty ==
    (CleanCalled /\ RawRows # {} /\ \A i \in RawRows : Excluded(original_data[i])) =>
        /\ prices.status = "ok"
        /\ prices.dates_datetime = <<>> /\ prices.price_open = <<>>
        /\ prices.price_close = <<>> /\ prices.price_close_adj = <<>>

(***************************************************************************)
(* Properties of get_plot_data on an empty cleaned series, under SpecPlot. *)
(***************************************************************************)
EmptySeries == CleanReturned /\ prices.dates_datetime = <<>>

\* C15: once clean has returned an empty series, no return is computed and
\* no curve is cumulated: compute_returns_overnight_intraday returns two
\* empty lists, get_plot_data returns None and nothing raises; None is
\* returned for no other series, so the outcome differs from a PlotData
\* and from a raised exception.
C15_EmptySeriesEndsInNone ==
    /\ EmptySeries =>
          /\ pc \in {"prices", "decomposed", "none"}
          /\ pc = "prices" => rets = Unset
          /\ pc # "prices" =>
                rets = [status |-> "ok", returns_overnight |-> <<>>,
                        returns_intraday |-> <<>>]
          /\ pc = "none" <=> plot = NoPlotData("None")
          /\ pc # "none" => plot = Unset
          /\ curves = Unset
    /\ pc = "none" => EmptySeries

\* get_plot_data has returned None for a file with rows
C15_Witness ==
    /\ EmptySeries
    /\ pc = "none"
    /\ plot.status = "None"
    /\ RawRows # {}

(***************************************************************************)
(* Lookups of get_prices_open_close_adj_dates that find nothing, under     *)
(* SpecClean.                                                              *)
(***************************************************************************)
\* C16: when rows are left by the filters and none of them has
\* open # close (and no adjusted close fails the check of line 623), clean
\* still returns a series.
C16_NoDifferingRowStillReturns ==
    (/\ CleanCalled
     /\ SurvivingLines # {}
     /\ \A i \in SurvivingLines :
           /\ OpenIsClose(original_data[i])
           /\ original_data[i].adj_close.v > 0) =>
        prices.status = "ok"

\* C17: clean applied to the rows of a series it returned, with the same
\* start and end dates and no excluded dates, returns that series.
C17_CleanIdempotent ==
    CleanReturned =>
        LET lines == ReturnedLines
        IN  /\ IsTheSeries(lines)
            /\ get_prices_open_close_adj_dates(
                   lines \o <<BlankLine>>, start_date, end_date, <<>>) = prices

(***************************************************************************)
(* Order of the returned dates, under SpecClean.  Every file of SpecClean  *)
(* is ordered by non-decreasing date.                                      *)
(***************************************************************************)
FileDatesStrictlyIncrease ==
    \A i, j \in RawRows :
        i < j => ParseDate(original_data[i].date) < ParseDate(original_data[j].date)

\* C18 as stated: the dates of a series returned by clean are strictly
\* increasing.
C18_DatesStrictlyIncrease ==
    CleanReturned =>
        \A i \in 2..Len(prices.dates_datetime) :
            prices.dates_datetime[i - 1] < prices.dates_datetime[i]

\* C18, amended: the dates of a series returned by clean are
\* non-decreasing, and they are strictly increasing when no two rows of the
\* file share a date.
C18_DatesKeepFileOrder ==
    CleanReturned =>
        /\ \A i \in 2..Len(prices.dates_datetime) :
              prices.dates_datetime[i - 1] <= prices.dates_datetime[i]
        /\ FileDatesStrictlyIncrease =>
              \A i \in 2..Len(prices.dates_datetime) :
                  prices.dates_datetime[i - 1] < prices.dates_datetime[i]

\* three rows are returned, the first two of one date and the third later
C18_Witness ==
    /\ CleanReturned
    /\ Len(prices.dates_datetime) = 3
    /\ prices.dates_datetime[1] = prices.dates_datetime[2]
    /\ prices.dates_datetime[2] < prices.dates_datetime[3]

(***************************************************************************)
(* Properties of compute_returns_overnight_intraday on the series that     *)
(* get_prices_open_close_adj_dates returns, under SpecPlot.                *)
(***************************************************************************)
DecomposeCalled == CleanReturned /\ rets # Unset

\* C19: on a series returned by clean, decompose completes without a
\* division by zero: no open is zero, and no close is zero at an index
\* i > 0 whose overnight return is computed by dividing by 1 + intraday[i].
C19_NoDivisionByZero ==
    /\ CleanReturned =>
          \A i \in 1..Len(prices.dates_datetime) :
              /\ prices.price_open[i] # Zero
              /\ (i > 1 /\ NoBigGap(prices.dates_datetime, i)) =>
                    prices.price_close[i] # Zero
    /\ DecomposeCalled => rets.status # "ZeroDivisionError"

\* C20: the four lists that clean returns have one length, and the
\* overnight and intraday lists that decompose returns for them have that
\* length too, one entry for each date.
C20_ParallelListsAligned ==
    /\ CleanReturned =>
          /\ Len(prices.price_open) = Len(prices.dates_datetime)
          /\ Len(prices.price_close) = Len(prices.dates_datetime)
          /\ Len(prices.price_close_adj) = Len(prices.dates_datetime)
    /\ (DecomposeCalled /\ rets.status = "ok") =>
          /\ Len(rets.returns_overnight) = Len(prices.dates_datetime)
          /\ Len(rets.returns_intraday) = Len(prices.dates_datetime)
          /\ DOMAIN rets.returns_overnight = DOMAIN prices.dates_datetime
          /\ DOMAIN rets.returns_intraday = DOMAIN prices.dates_datetime

\* decompose has returned for a series of MaxPlotRows rows
C20_Witness ==
    /\ DecomposeCalled
    /\ rets.status = "ok"
    /\ Len(prices.dates_datetime) = MaxPlotRows
    /\ Len(rets.returns_overnight) = MaxPlotRows
    /\ Len(rets.returns_intraday) = MaxPlotRows

(***************************************************************************)
(* Properties of PlotData.histogram_returns and PlotData.plot_data, under  *)
(* SpecCurves.                                                             *)
(***************************************************************************)
Histogrammed == pc = "histogram"
PlotDays == Len(plot.dates_datetime)

\* a return in percent, cut to [-2.93, +2.93]
DisplayBound == Rat(293, 100)
InPercent(r) == Rat(r[1] * 100, r[2])
Displayed(r) ==
    IF RLt(DisplayBound, InPercent(r)) THEN DisplayBound
    ELSE IF RLt(InPercent(r), RSub(Zero, DisplayBound)) THEN RSub(Zero, DisplayBound)
    ELSE InPercent(r)

\* C21: for a series of n days histogram_returns draws n - 1 overnight
\* values, those of the days after the first, and n intraday values; each
\* is the return times 100 cut to [-2.93, +2.93], so a value beyond the
\* bound lands on the bound and a value inside is unchanged.
C21_HistogramSamples ==
    Histogrammed =>
        /\ samples.status = "ok"
        /\ Len(samples.overnight) = PlotDays - 1
        /\ Len(samples.intraday) = PlotDays
        /\ \A i \in 1..(PlotDays - 1) :
              samples.overnight[i] = Displayed(plot.returns_overnight[i + 1])
        /\ \A i \in 1..PlotDays :
              samples.intraday[i] = Displayed(plot.returns_intraday[i])

\* the overnight sample holds a value cut to each bound and the intraday
\* sample a non-zero value inside the bounds
C21_Witness ==
    /\ Histogrammed
    /\ PlotDays = 3
    /\ samples.overnight = <<DisplayBound, RSub(Zero, DisplayBound)>>
    /\ plot.returns_overnight = <<Zero, R(1), R(-1)>>
    /\ \E i \in 1..PlotDays :
          /\ samples.intraday[i] = R(1)
          /\ plot.returns_intraday[i] = Rat(1, 100)

\* the compounded return of the first i returns of rs
Compounded(rs, i) == RSub(GrowthProduct(rs, i), One)

\* the scalar mapping of the scale of the returned curves
Scaled(c) ==
    IF curves.vertical_scale = "log" THEN RAdd(c, One)
    ELSE IF curves.linear_scale = "percent" THEN Rat(c[1] * 100, c[2])
    ELSE IF curves.linear_scale = "currency" THEN RAdd(c, One)
    ELSE c

\* C22: under every scale each curve that plot_data returns is, index by
\* index, the scale's mapping of the compounded returns: c * 100 for
\* percent, c for fraction_of_unity, c + 1 for currency and c + 1 for the
\* log vertical scale, whatever linear_scale is passed with log.
C22_CurvesAreScaledCompounding ==
    /\ Plotted =>
          /\ curves.status = "ok"
          /\ Len(curves.overnight_curve) = PlotDays
          /\ Len(curves.intraday_curve) = PlotDays
          /\ \A i \in 1..PlotDays :
                /\ curves.overnight_curve[i] =
                      Scaled(Compounded(plot.returns_overnight, i))
                /\ curves.intraday_curve[i] =
                      Scaled(Compounded(plot.returns_intraday, i))
    /\ (curves # Unset /\ curves.vertical_scale = "log") => Plotted

\* the log scale with a linear_scale that is none of the three, on three
\* days of returns that change both curves
C22_Witness ==
    /\ Plotted
    /\ curves.vertical_scale = "log"
    /\ curves.linear_scale \notin LINEAR_SCALES
    /\ PlotDays = 3
    /\ curves.overnight_curve[3] \notin {Zero, One, curves.overnight_curve[2]}
    /\ curves.intraday_curve[3] \notin {Zero, One, curves.intraday_curve[2]}

PlottedLinear == Plotted /\ curves.vertical_scale = "linear"
StartValue == linear_scale_start_value(curves.linear_scale).value

StageIsPure ==
    /\ original_data' = original_data
    /\ pc # "raw" =>
          /\ <<start_date, end_date, bad_data_dates>>' =
                <<start_date, end_date, bad_data_dates>>
          /\ prices' = prices
    /\ rets # Unset => rets' = rets
    /\ plot # Unset => plot' = plot
    /\ pc = "raw" => prices'.status \in {"ok", "AssertionError", "ValueError"}
    /\ pc = "prices" =>
          rets' = compute_returns_overnight_intraday(
                      prices'.price_open, prices'.price_close,
                      prices'.price_close_adj, prices'.dates_datetime)
    /\ (pc = "plot_data" /\ pc' = "plotted") =>
          /\ Len(curves'.overnight_curve) = Len(plot'.returns_overnight)
          /\ \A i \in 1..Len(plot'.returns_overnight) :
                /\ curves'.overnight_curve[i] =
                      r_func(vertical_choice(curves'.vertical_scale, curves'.linear_scale),
                             cumulate_returns(plot'.returns_overnight)[i])
                /\ curves'.intraday_curve[i] =
                      r_func(vertical_choice(curves'.vertical_scale, curves'.linear_scale),
                             cumulate_returns(plot'.returns_intraday)[i])

FirstFromStart(rows) ==
    CHOOSE k \in 1..(Len(rows) + 1) :
        /\ \A j \in 1..(k - 1) : ParseDate(rows[j].date) < EffectiveStart
        /\ k <= Len(rows) => ParseDate(rows[k].date) >= EffectiveStart
FirstAfterEnd(rows) ==
    CHOOSE k \in 1..(Len(rows) + 1) :
        /\ \A j \in 1..(k - 1) : ParseDate(rows[j].date) <= EffectiveEnd
        /\ k <= Len(rows) => ParseDate(rows[k].date) > EffectiveEnd

\* C25: a series returned by clean is the filtered rows with 0-based
\* indices in [d0, d1), d0 the larger of the first index with open # close
\* and the first index dated at or after the start date, d1 the first index
\* dated after the end date or the number of filtered rows; for every d0,
\* d0 = 1 included.
C25_SeriesIsRowsD0ToD1 ==
    CleanReturned =>
        LET rows == SurvivingRows
            d0 == Max(FirstOpenDiffers(rows), FirstFromStart(rows)) - 1
            d1 == FirstAfterEnd(rows) - 1
        IN  IsTheSeries(Slice(rows, d0, d1))

(***************************************************************************)
(* The result of get_plot_data, under SpecPlot.                            *)
(***************************************************************************)
GetPlotDataReturned == plot # Unset

\* C26: get_plot_data returns None exactly when clean returned no row, and
\* then constructs no PlotData; otherwise it returns the PlotData of the
\* returned dates, so the constructor never reads returns_overnight[0] of
\* an empty list.
C26_NoneExactlyWhenEmpty ==
    GetPlotDataReturned =>
        /\ plot.status = "None" <=> prices.dates_datetime = <<>>
        /\ pc = "none" <=> plot.status = "None"
        /\ plot.status # "IndexError"
        /\ plot.status # "None" =>
              /\ plot.status = "ok"
              /\ plot.dates_datetime = prices.dates_datetime
              /\ plot.returns_overnight = rets.returns_overnight
              /\ plot.returns_intraday = rets.returns_intraday

\* None is returned for a file whose only trading row is outside the window
C26_Witness ==
    /\ GetPlotDataReturned
    /\ plot = NoPlotData("None")
    /\ prices.dates_datetime = <<>>
    /\ \E i \in SurvivingLines :
          /\ ~OpenIsClose(original_data[i])
          /\ ParseDate(original_data[i].date) > EffectiveEnd

(***************************************************************************)
(* The rows that the check of line 623 reads, under SpecClean.             *)
(***************************************************************************)
\* the reason for which a line is dropped before the check of line 623
DroppedByDate(line) == ~line.blank /\ Excluded(line)
DroppedByPrices(line) ==
    /\ ~line.blank /\ ~line.null /\ ~Excluded(line)
    /\ \/ line.open = line.high /\ line.high = line.low /\ line.low = line.close
       \/ line.open.v <= 0

\* C27: a row with adjusted close <= 0 that is removed by the bad-date,
\* null, flat or open <= 0 filter never makes clean fail: when every line
\* that survives the filters has an adjusted close > 0, clean does not
\* raise the data-integrity error, whatever the other lines hold.
C27_DroppedRowsAreNotChecked ==
    (CleanCalled /\ \A i \in SurvivingLines : original_data[i].adj_close.v > 0) =>
        prices.status # "AssertionError"

\* a series is returned from a file with a line of adjusted close <= 0
\* dropped for its date and another dropped for its prices
C27_Witness ==
    /\ CleanReturned
    /\ prices.dates_datetime # <<>>
    /\ \E i \in 1..Len(original_data) :
          /\ DroppedByDate(original_data[i])
          /\ PassesPriceFilters(original_data[i])
          /\ original_data[i].adj_close.v <= 0
    /\ \E i \in 1..Len(original_data) :
          /\ DroppedByPrices(original_data[i])
          /\ original_data[i].adj_close.v <= 0

\* plot_data was called with a scale it accepts
ScaleAccepted ==
    /\ curves # Unset
    /\ curves.vertical_scale = "log" \/ curves.linear_scale \in LINEAR_SCALES

\* C28: on a PlotData that passed the constructor's checks, the assertion
\* overnight_curve[0] == r_func(0) of plot_data holds under every scale:
\* the call returns, and the overnight curve starts at 0 (percent,
\* fraction_of_unity) or at 1 (currency, log).
C28_CurveAssertionHolds ==
    ScaleAccepted =>
        /\ plot.status = "ok"
        /\ plot.returns_overnight[1] = Zero
        /\ curves.status = "ok"
        /\ curves.overnight_curve[1] =
              (IF curves.vertical_scale = "linear"
                  /\ curves.linear_scale \in {"percent", "fraction_of_unity"}
               THEN Zero ELSE One)

\* the log scale, on three days whose later overnight returns are not 0
C28_Witness ==
    /\ ScaleAccepted
    /\ Plotted
    /\ curves.vertical_scale = "log"
    /\ curves.linear_scale = "percent"
    /\ PlotDays = 3
    /\ curves.overnight_curve[1] = One
    /\ plot.returns_overnight[2] # Zero
    /\ plot.returns_overnight[3] # Zero
    /\ plot.returns_intraday[1] # Zero

(***************************************************************************)
(* Algebra of cumulate_returns, under SpecCumulate.                        *)
(***************************************************************************)
\* the first k returns and the returns after them
FirstReturns(k) == SubSeq(returns, 1, k)
LaterReturns(k) == SubSeq(returns, k + 1, Len(returns))

\* C29: for every split of the returns into a non-empty r and an s, the
\* first len(r) entries of cumulate(r ++ s) are cumulate(r), and the entry
\* at index len(r) + j is (1 + last(cumulate(r))) * (1 + cumulate(s)[j]) - 1.
C29_ComposesOverConcatenation ==
    Cumulated =>
        \A k \in 1..Len(returns) :
            LET cr == cumulate_returns(FirstReturns(k))
                cs == cumulate_returns(LaterReturns(k))
            IN  /\ SubSeq(cumulated, 1, k) = cr
                /\ Len(cumulated) = Len(cr) + Len(cs)
                /\ \A j \in 1..Len(cs) :
                      cumulated[k + j] =
                          RSub(RMul(Growth(cr[k]), Growth(cs[j])), One)

\* four returns, none of them 0 or a total loss, that change the
\* cumulated return at every step
C29_Witness ==
    /\ Cumulated
    /\ Len(returns) = 4
    /\ \A i \in 1..4 : returns[i] \notin {Zero, R(-1)}
    /\ \A i, j \in 1..4 : i # j => cumulated[i] # cumulated[j]

\* C30: a total loss is absorbing: if r[k] = -1 then cumulate(r)[i] = -1
\* for every i >= k, whatever the later returns are.
C30_TotalLossAbsorbs ==
    Cumulated =>
        \A k \in 1..Len(returns) :
            returns[k] = R(-1) =>
                \A i \in k..Len(returns) : cumulated[i] = R(-1)

\* a total loss on the second of four days, after a gain and before two
\* more gains
C30_Witness ==
    /\ Cumulated
    /\ Len(returns) = 4
    /\ returns[1] = R(1)
    /\ returns[2] = R(-1)
    /\ returns[3] = R(1) /\ returns[4] = Rat(1, 2)
    /\ cumulated[1] = R(1)
    /\ cumulated[4] = R(-1)

====
